---- MODULE Spec2Model ----
(***************************************************************************)
(* Model of the backtesting engine (src/src/engine).                       *)
(*                                                                         *)
(* run_backtest is a pipeline: validation, scan_entries,                   *)
(* simulate_position_exits (one rayon worker per position),                *)
(* compute_exposure_series, and the closed/open partition of the result.   *)
(*                                                                         *)
(* Encoding of values.  An f64 is an integer; every input of the model is  *)
(* a small integer and the rates are integers, so each product, sum and    *)
(* difference the code computes is exact in f64 and equals the integer     *)
(* computed here.  NaN and Inf are two reserved integers, and comparisons  *)
(* go through FLt/FLe/FGt/FGe, which are false when an operand is NaN.     *)
(* A quotient (absolute_return, real_return) is kept as the pair of its    *)
(* numerator and denominator.  An Option<T> is a sequence: <<>> is None    *)
(* and <<v>> is Some(v).  Arrays are functions on 0..len-1, as indexed in  *)
(* the source.                                                             *)
(***************************************************************************)
EXTENDS Integers, Sequences, FiniteSets

VARIABLES input, pc, error, positions, visited, exposure_series, closed, open_,
          summary_metrics

vars == <<input, pc, error, positions, visited, exposure_series, closed, open_,
          summary_metrics>>

\* ------------------------------------------------------------------ bounds

\* Largest number of bars N of an input.
MaxBars == 3
\* Largest number of signal bars of an input.
MaxSignals == 2

\* ------------------------------------------------------------------ values

\* f64::INFINITY
Inf == 1000000
\* f64::NAN
NaN == 0 - 1000001

IsNaN(x) == x = NaN

FLt(a, b) == ~IsNaN(a) /\ ~IsNaN(b) /\ a < b
FLe(a, b) == ~IsNaN(a) /\ ~IsNaN(b) /\ a <= b
FGt(a, b) == ~IsNaN(a) /\ ~IsNaN(b) /\ a > b
FGe(a, b) == ~IsNaN(a) /\ ~IsNaN(b) /\ a >= b

None == <<>>
Some(v) == <<v>>
IsSome(o) == o # <<>>
Unwrap(o) == o[1]

\* Vec::len of an array held as a function on 0..len-1.
ALen(a) == Cardinality(DOMAIN a)

Abs(x) == IF x < 0 THEN 0 - x ELSE x

\* ------------------------------------------------------------------ inputs

\* The OHLC shapes a bar of a generated input can take.
BarKinds ==
    { [o |-> 2, h |-> 2, l |-> 2, c |-> 2],
      [o |-> 2, h |-> 3, l |-> 2, c |-> 3],
      [o |-> 2, h |-> 2, l |-> 1, c |-> 1],
      [o |-> 2, h |-> 3, l |-> 1, c |-> 2] }

\* Per-bar signal: no signal, a long signal, a short signal.
SignalKinds == {"none", "long", "short"}

\* Levels of a bar: "near" levels are reached by the bars above, "far" ones never.
LevelsOf(kind) ==
    IF kind = "near"
    THEN [long_tp |-> 3, long_sl |-> 1, short_tp |-> 1, short_sl |-> 3]
    ELSE [long_tp |-> 5, long_sl |-> 0, short_tp |-> 0, short_sl |-> 5]

\* How the level arrays vary along the bars.
LevelProfiles == {"near", "alternate"}

LevelKindAt(profile, i) ==
    IF profile = "near" \/ i % 2 = 0 THEN "near" ELSE "far"

\* How expiration_times relates to timestamp: no expiration, the bar's own
\* timestamp, or one time unit after it.
ExpirationProfiles == {"none", "own", "next"}

TimestampAt(i) == i + 1

ExpirationAt(profile, i) ==
    IF profile = "none" THEN Inf
    ELSE IF profile = "own" THEN TimestampAt(i)
    ELSE TimestampAt(i) + 1

\* (slippage_rate, entry_fee_rate, exit_fee_rate)
RateChoices ==
    { [slippage_rate |-> 0, entry_fee_rate |-> 0, exit_fee_rate |-> 0],
      [slippage_rate |-> 1, entry_fee_rate |-> 0, exit_fee_rate |-> 0],
      [slippage_rate |-> 0, entry_fee_rate |-> 1, exit_fee_rate |-> 2] }

InitialEquities == {1000}

MakeInput(n, bars, sigs, lev, exp, rates, eq) ==
    [ timestamp        |-> [i \in 0..(n - 1) |-> TimestampAt(i)],
      open             |-> [i \in 0..(n - 1) |-> bars[i].o],
      high             |-> [i \in 0..(n - 1) |-> bars[i].h],
      low              |-> [i \in 0..(n - 1) |-> bars[i].l],
      close            |-> [i \in 0..(n - 1) |-> bars[i].c],
      long_signals     |-> [i \in 0..(n - 1) |-> sigs[i] = "long"],
      short_signals    |-> [i \in 0..(n - 1) |-> sigs[i] = "short"],
      long_tp          |-> [i \in 0..(n - 1) |-> LevelsOf(LevelKindAt(lev, i)).long_tp],
      long_sl          |-> [i \in 0..(n - 1) |-> LevelsOf(LevelKindAt(lev, i)).long_sl],
      short_tp         |-> [i \in 0..(n - 1) |-> LevelsOf(LevelKindAt(lev, i)).short_tp],
      short_sl         |-> [i \in 0..(n - 1) |-> LevelsOf(LevelKindAt(lev, i)).short_sl],
      long_size        |-> [i \in 0..(n - 1) |-> i + 1],
      short_size       |-> [i \in 0..(n - 1) |-> i + 2],
      expiration_times |-> [i \in 0..(n - 1) |-> ExpirationAt(exp, i)],
      entry_fee_rate   |-> rates.entry_fee_rate,
      exit_fee_rate    |-> rates.exit_fee_rate,
      slippage_rate    |-> rates.slippage_rate,
      initial_equity   |-> eq ]

SignalCount(n, sigs) == Cardinality({i \in 0..(n - 1) : sigs[i] # "none"})

\* The signal arrangements of n bars.
SignalChoices(n) ==
    {s \in [0..(n - 1) -> SignalKinds] : SignalCount(n, s) <= MaxSignals}

\* input is an input that passes validation.
ValidInput(inp) ==
    \E n \in 1..MaxBars :
      \E bars \in [0..(n - 1) -> BarKinds], sigs \in SignalChoices(n),
         lev \in LevelProfiles, exp \in ExpirationProfiles,
         rates \in RateChoices, eq \in InitialEquities :
           inp = MakeInput(n, bars, sigs, lev, exp, rates, eq)

\* inp is the input of no bars at all: every array is empty.
EmptyInput(inp) ==
    \E rates \in RateChoices, eq \in InitialEquities :
      inp = MakeInput(0, <<>>, <<>>, "near", "none", rates, eq)

\* Scenarios S1 (side "long") and S2 (side "short") of the specification: four
\* bars at 100, the signal on bar 0, the price at 110 on bar 2, levels 110 and
\* 90, size 1, no expiration, no fee, no slippage.
Scenario(side) ==
    [ timestamp        |-> [i \in 0..3 |-> i + 1],
      open             |-> [i \in 0..3 |-> 100],
      high             |-> [i \in 0..3 |-> IF i = 2 THEN 110 ELSE 100],
      low              |-> [i \in 0..3 |-> 100],
      close            |-> [i \in 0..3 |-> IF i = 2 THEN 110 ELSE 100],
      long_signals     |-> [i \in 0..3 |-> side = "long" /\ i = 0],
      short_signals    |-> [i \in 0..3 |-> side = "short" /\ i = 0],
      long_tp          |-> [i \in 0..3 |-> 110],
      long_sl          |-> [i \in 0..3 |-> 90],
      short_tp         |-> [i \in 0..3 |-> 90],
      short_sl         |-> [i \in 0..3 |-> 110],
      long_size        |-> [i \in 0..3 |-> 1],
      short_size       |-> [i \in 0..3 |-> 1],
      expiration_times |-> [i \in 0..3 |-> Inf],
      entry_fee_rate   |-> 0,
      exit_fee_rate    |-> 0,
      slippage_rate    |-> 0,
      initial_equity   |-> 1000 ]

ScenarioInput(inp) == inp \in {Scenario("long"), Scenario("short")}

ZeroRatesOf(inp) ==
    inp.slippage_rate = 0 /\ inp.entry_fee_rate = 0 /\ inp.exit_fee_rate = 0

\* Ways an input can be invalid.  Each changes one array of a valid input.
Defects ==
    { "open_short", "expiration_long", "short_signals_long", "long_signals_short",
      "nan_high", "inf_high", "timestamp_repeat", "conflict", "expiration_past" }

Truncate(a) == [i \in 0..(ALen(a) - 2) |-> a[i]]
Extend(a, v) == [i \in 0..ALen(a) |-> IF i < ALen(a) THEN a[i] ELSE v]
Last(a) == a[ALen(a) - 1]

ApplyDefect(inp, d) ==
    CASE d = "open_short"         -> [inp EXCEPT !.open = Truncate(@)]
      [] d = "expiration_long"    -> [inp EXCEPT !.expiration_times = Extend(@, Inf)]
      [] d = "short_signals_long" -> [inp EXCEPT !.short_signals = Extend(@, FALSE)]
      [] d = "long_signals_short" -> [inp EXCEPT !.long_signals = Truncate(@)]
      [] d = "nan_high"           -> [inp EXCEPT !.high[0] = NaN]
      [] d = "inf_high"           -> [inp EXCEPT !.high[ALen(inp.high) - 1] = Inf]
      [] d = "timestamp_repeat"   ->
            [inp EXCEPT !.timestamp[ALen(inp.timestamp) - 1] =
                            inp.timestamp[ALen(inp.timestamp) - 2]]
      [] d = "conflict"           ->
            [inp EXCEPT !.long_signals[0] = TRUE, !.short_signals[0] = TRUE]
      [] d = "expiration_past"    ->
            [inp EXCEPT !.expiration_times[0] = inp.timestamp[0] - 1]

\* Largest number of defects put into one input.
MaxDefects == 2

\* The valid inputs the defects are applied to: two flat bars, one long signal.
DefectBases ==
    { MakeInput(2, [i \in 0..1 |-> [o |-> 2, h |-> 2, l |-> 2, c |-> 2]],
                [i \in 0..1 |-> IF i = 0 THEN "long" ELSE "none"],
                "near", exp, [slippage_rate |-> 0, entry_fee_rate |-> 0, exit_fee_rate |-> 0], eq) :
        exp \in ExpirationProfiles, eq \in InitialEquities }

RECURSIVE ApplyDefects(_, _)
ApplyDefects(inp, ds) ==
    IF ds = {} THEN inp
    ELSE LET d == CHOOSE x \in ds : TRUE
         IN  ApplyDefects(ApplyDefect(inp, d), ds \ {d})

\* inp is an input with one to MaxDefects defects.  The defects change
\* different arrays, so the order of application does not matter.
InvalidInput(inp) ==
    \E b \in DefectBases :
      \E ds \in {x \in SUBSET Defects : Cardinality(x) >= 1 /\ Cardinality(x) <= MaxDefects} :
        inp = ApplyDefects(b, ds)

\* -------------------------------------------------------------- validation

\* The outcome of validation is "OK", "PANIC" (an index out of bounds), or the
\* kind of the PyValueError returned, named after its message:
\*   "timestamps must be strictly increasing"        TIMESTAMPS_NOT_INCREASING
\*   "both long and short signals true at index .."  SIGNAL_CONFLICT
\*   "All input arrays must have the same length",
\*   "'..' length .. != expected .."                 LENGTH_MISMATCH
\*   "Input contains NaN"                            NON_FINITE_PRICE
\*   "expiration_time .. < timestamp .. at index .." EXPIRATION_IN_PAST

\* ts.windows(2).all(|w| w[1] > w[0])
TimestampsIncreasing(ts) ==
    \A i \in 0..(ALen(ts) - 2) : FGt(ts[i + 1], ts[i])

\* The loop "for i in 0..ts.len() { if long_sig[i] && short_sig[i] ..." from bar i
\* on.  Indexing a signal array past its end panics; short_sig[i] is only read
\* when long_sig[i] is true.
RECURSIVE SignalExclusion(_, _, _, _)
SignalExclusion(i, n, long_sig, short_sig) ==
    IF i >= n THEN "OK"
    ELSE IF i >= ALen(long_sig) THEN "PANIC"
    ELSE IF long_sig[i]
         THEN IF i >= ALen(short_sig) THEN "PANIC"
              ELSE IF short_sig[i] THEN "SIGNAL_CONFLICT"
              ELSE SignalExclusion(i + 1, n, long_sig, short_sig)
         ELSE SignalExclusion(i + 1, n, long_sig, short_sig)

\* prepare_inputs over arrays k..4 of <<ts, o, h, l, c>> (1-based here), len
\* being the length of the first.
RECURSIVE PrepareFrom(_, _, _)
PrepareFrom(arrays, k, len) ==
    IF k > Len(arrays) THEN "OK"
    ELSE IF ALen(arrays[k]) # len THEN "LENGTH_MISMATCH"
    ELSE IF \E i \in DOMAIN arrays[k] : IsNaN(arrays[k][i]) THEN "NON_FINITE_PRICE"
    ELSE PrepareFrom(arrays, k + 1, len)

prepare_inputs(arrays) == PrepareFrom(arrays, 1, ALen(arrays[1]))

validate_length(arr, expected) ==
    IF ALen(arr) # expected THEN "LENGTH_MISMATCH" ELSE "OK"

\* The nine validate_length calls, in order.
RECURSIVE ValidateLengths(_, _, _)
ValidateLengths(arrays, k, n) ==
    IF k > Len(arrays) THEN "OK"
    ELSE IF validate_length(arrays[k], n) # "OK" THEN validate_length(arrays[k], n)
    ELSE ValidateLengths(arrays, k + 1, n)

\* for i in 0..n { if exp_times[i] < ts[i] ...
ExpirationCheck(n, exp_times, ts) ==
    IF \E i \in 0..(n - 1) : FLt(exp_times[i], ts[i]) THEN "EXPIRATION_IN_PAST" ELSE "OK"

\* The checks of run_backtest in the order the code makes them; the result is
\* "OK", the kind of the first failed check, or "PANIC".
Validate(inp) ==
    IF ~TimestampsIncreasing(inp.timestamp) THEN "TIMESTAMPS_NOT_INCREASING"
    ELSE LET sig == SignalExclusion(0, ALen(inp.timestamp), inp.long_signals, inp.short_signals)
         IN
         IF sig # "OK" THEN sig
         ELSE LET core == prepare_inputs(<<inp.timestamp, inp.open, inp.high, inp.low, inp.close>>)
                  n == ALen(inp.timestamp)
              IN
              IF core # "OK" THEN core
              ELSE LET rest == ValidateLengths(
                                  <<inp.long_signals, inp.short_signals, inp.long_tp,
                                    inp.long_sl, inp.short_tp, inp.short_sl,
                                    inp.long_size, inp.short_size, inp.expiration_times>>, 1, n)
                   IN
                   IF rest # "OK" THEN rest
                   ELSE ExpirationCheck(n, inp.expiration_times, inp.timestamp)

\* ------------------------------------------------------------ scan_entries

\* Mutant of EntryIdx: the fill is on the signal bar itself.
EntryIdxSameBar(i, n) == i

\* The fill bar of a signal on bar i: the next bar, or bar i when it is the last.
EntryIdx(i, n) == IF i + 1 < n THEN i + 1 ELSE i

\* expiration_times.get(entry_idx).copied()
\* The expiration read one bar before the entry bar: the signal bar of an
\* entry on the next bar.
ExpTimeOfPreviousBar(expiration_times, entry_idx) ==
    IF entry_idx - 1 \in DOMAIN expiration_times
    THEN Some(expiration_times[entry_idx - 1])
    ELSE IF entry_idx \in DOMAIN expiration_times
         THEN Some(expiration_times[entry_idx]) ELSE None

ExpTime(expiration_times, entry_idx) ==
    IF entry_idx \in DOMAIN expiration_times
    THEN Some(expiration_times[entry_idx]) ELSE None

\* The "Expiration sanity-check" of bar i: true when it panics.
ExpirationPanics(exp_time, entry_ts) ==
    IsSome(exp_time) /\ FLt(Unwrap(exp_time), entry_ts)

NewPosition(side, entry_ts, entry_idx, entry_price, tp, sl, exp_time, size, fee_entry, slippage_entry) ==
    [ position_id     |-> entry_ts,
      position_type   |-> side,
      entry_index     |-> entry_idx,
      entry_price     |-> entry_price,
      tp              |-> tp,
      sl              |-> sl,
      expiration_time |-> exp_time,
      exit_index      |-> None,
      exit_price      |-> None,
      exit_condition  |-> None,
      position_size   |-> size,
      fee_entry       |-> fee_entry,
      fee_exit        |-> 0,
      slippage_entry  |-> slippage_entry,
      slippage_exit   |-> 0,
      absolute_return |-> None,
      real_return     |-> None,
      pnl             |-> None,
      is_closed       |-> FALSE ]

\* The position pushed for long[i].
\* The LONG entry with the expiration of the signal bar i in place of exp_time.
LongEntrySignalBarExpiration(inp, i, entry_idx, exp_time) ==
    LET raw_open       == inp.open[entry_idx]
        entry_price    == raw_open * (1 + inp.slippage_rate)
        slippage_entry == entry_price - raw_open
        fee_entry      == inp.long_size[i] * entry_price * inp.entry_fee_rate
    IN  NewPosition("long", inp.timestamp[entry_idx], entry_idx, entry_price,
                    inp.long_tp[i], inp.long_sl[i], Some(inp.expiration_times[i]),
                    inp.long_size[i], fee_entry, slippage_entry)

LongEntry(inp, i, entry_idx, exp_time) ==
    LET raw_open       == inp.open[entry_idx]
        entry_price    == raw_open * (1 + inp.slippage_rate)
        slippage_entry == entry_price - raw_open
        fee_entry      == inp.long_size[i] * entry_price * inp.entry_fee_rate
    IN  NewPosition("long", inp.timestamp[entry_idx], entry_idx, entry_price,
                    inp.long_tp[i], inp.long_sl[i], exp_time, inp.long_size[i],
                    fee_entry, slippage_entry)

\* The position pushed for short[i].
ShortEntry(inp, i, entry_idx, exp_time) ==
    LET raw_open       == inp.open[entry_idx]
        entry_price    == raw_open * (1 - inp.slippage_rate)
        slippage_entry == raw_open - entry_price
        fee_entry      == inp.short_size[i] * entry_price * inp.entry_fee_rate
    IN  NewPosition("short", inp.timestamp[entry_idx], entry_idx, entry_price,
                    inp.short_tp[i], inp.short_sl[i], exp_time, inp.short_size[i],
                    fee_entry, slippage_entry)

\* Mutant of EntriesOfBar: short signals push nothing.
EntriesOfBarLongOnly(inp, i, entry_idx, exp_time) ==
    IF inp.long_signals[i] THEN <<LongEntry(inp, i, entry_idx, exp_time)>> ELSE <<>>

\* The positions bar i pushes: the long one, then the short one.
EntriesOfBar(inp, i, entry_idx, exp_time) ==
    (IF inp.long_signals[i] THEN <<LongEntry(inp, i, entry_idx, exp_time)>> ELSE <<>>)
    \o (IF inp.short_signals[i] THEN <<ShortEntry(inp, i, entry_idx, exp_time)>> ELSE <<>>)

\* The main loop of scan_entries from bar i on, acc being the positions pushed
\* so far.  The sanity check runs on every bar, with or without a signal.
RECURSIVE ScanLoop(_, _, _, _)
ScanLoop(inp, i, n, acc) ==
    IF i >= n THEN [panic |-> FALSE, positions |-> acc]
    ELSE LET entry_idx == EntryIdx(i, n)
             exp_time  == ExpTime(inp.expiration_times, entry_idx)
         IN  IF ExpirationPanics(exp_time, inp.timestamp[entry_idx])
             THEN [panic |-> TRUE, positions |-> <<>>]
             ELSE ScanLoop(inp, i + 1, n, acc \o EntriesOfBar(inp, i, entry_idx, exp_time))

scan_entries(inp) ==
    LET n == ALen(inp.open)
    IN  IF \E i \in 0..(n - 1) : inp.long_signals[i] /\ inp.short_signals[i]
        THEN [panic |-> TRUE, positions |-> <<>>]
        ELSE ScanLoop(inp, 0, n, <<>>)

\* -------------------------------------------------- simulate_position_exits

HitSl(pos, j, high, low) ==
    CASE pos.position_type = "long"  -> FLe(low[j], pos.sl)
      [] pos.position_type = "short" -> FGe(high[j], pos.sl)
      [] OTHER                       -> FALSE

\* The take-profit test of a LONG on either side.
HitTpLongRule(pos, j, high, low) == FGe(high[j], pos.tp)

HitTp(pos, j, high, low) ==
    CASE pos.position_type = "long"  -> FGe(high[j], pos.tp)
      [] pos.position_type = "short" -> FLe(low[j], pos.tp)
      [] OTHER                       -> FALSE

\* pos.expiration_time.map_or(false, |t_exp| timestamps[j] >= t_exp)
Expired(pos, j, timestamps) ==
    IF IsSome(pos.expiration_time)
    THEN FGe(timestamps[j], Unwrap(pos.expiration_time)) ELSE FALSE

RawExit(pos, hit_sl, hit_tp, close_j) ==
    IF hit_sl THEN pos.sl ELSE IF hit_tp THEN pos.tp ELSE close_j

\* Mutant of ExitCondition: TP is tested before SL.
ExitConditionTpFirst(hit_sl, hit_tp) ==
    IF hit_tp THEN "TP" ELSE IF hit_sl THEN "SL" ELSE "EXP"

ExitCondition(hit_sl, hit_tp) ==
    IF hit_sl THEN "SL" ELSE IF hit_tp THEN "TP" ELSE "EXP"

ExitFill(pos, raw_exit, slippage_rate) ==
    IF pos.position_type = "long"
    THEN raw_exit * (1 - slippage_rate)
    ELSE raw_exit * (1 + slippage_rate)

\* The gross PnL by the LONG formula on either side.
GrossPnlLongOnly(pos, exit_price) ==
    (exit_price - pos.entry_price) * pos.position_size

GrossPnl(pos, exit_price) ==
    IF pos.position_type = "long"
    THEN (exit_price - pos.entry_price) * pos.position_size
    ELSE (pos.entry_price - exit_price) * pos.position_size

\* The quotient num/den as the pair <<num, den>>.
Quot(num, den) == <<num, den>>

\* (exit_price / entry_price) - 1, which is (exit_price - entry_price)/entry_price
AbsoluteReturn(pos, exit_price) ==
    IF pos.entry_price # 0
    THEN Quot(exit_price - pos.entry_price, pos.entry_price)
    ELSE Quot(0, 1)

RealReturn(pos, pnl) ==
    IF pos.entry_price * pos.position_size # 0
    THEN Quot(pnl, pos.entry_price * pos.position_size)
    ELSE Quot(0, 1)

\* Mutant of ClosePosition: is_closed is not set.
ClosePositionStaysOpen(pos, j, hit_sl, hit_tp, close_j, exit_fee_rate, slippage_rate) ==
    LET raw_exit      == RawExit(pos, hit_sl, hit_tp, close_j)
        exit_price    == ExitFill(pos, raw_exit, slippage_rate)
        slippage_exit == Abs(raw_exit - exit_price)
        fee_exit      == pos.position_size * exit_price * exit_fee_rate
        pnl           == GrossPnl(pos, exit_price) - (pos.fee_entry + fee_exit)
    IN  [pos EXCEPT !.exit_index      = Some(j),
                    !.exit_price      = Some(exit_price),
                    !.exit_condition  = Some(ExitCondition(hit_sl, hit_tp)),
                    !.slippage_exit   = slippage_exit,
                    !.fee_exit        = fee_exit,
                    !.absolute_return = Some(AbsoluteReturn(pos, exit_price)),
                    !.real_return     = Some(RealReturn(pos, pnl)),
                    !.pnl             = Some(pnl)]

\* The body of "if hit_sl || hit_tp || expired": the position closed at bar j.
ClosePosition(pos, j, hit_sl, hit_tp, close_j, exit_fee_rate, slippage_rate) ==
    LET raw_exit      == RawExit(pos, hit_sl, hit_tp, close_j)
        exit_price    == ExitFill(pos, raw_exit, slippage_rate)
        slippage_exit == Abs(raw_exit - exit_price)
        fee_exit      == pos.position_size * exit_price * exit_fee_rate
        pnl           == GrossPnl(pos, exit_price) - (pos.fee_entry + fee_exit)
    IN  [pos EXCEPT !.exit_index      = Some(j),
                    !.exit_price      = Some(exit_price),
                    !.exit_condition  = Some(ExitCondition(hit_sl, hit_tp)),
                    !.slippage_exit   = slippage_exit,
                    !.fee_exit        = fee_exit,
                    !.is_closed       = TRUE,
                    !.absolute_return = Some(AbsoluteReturn(pos, exit_price)),
                    !.real_return     = Some(RealReturn(pos, pnl)),
                    !.pnl             = Some(pnl)]

\* Mutant of FirstScanBar: the entry bar is not looked at.
FirstScanBarAfterEntry(pos) == pos.entry_index + 1

\* The first bar the worker looks at.
FirstScanBar(pos) == pos.entry_index

\* The bar loop that writes the exit fee of every bar it scans into the
\* position, trigger or not.
RECURSIVE ExitLoopWritesEveryBar(_, _, _, _)
ExitLoopWritesEveryBar(pos, j, n, inp) ==
    IF j >= n THEN pos
    ELSE LET hit_sl  == HitSl(pos, j, inp.high, inp.low)
             hit_tp  == HitTp(pos, j, inp.high, inp.low)
             expired == Expired(pos, j, inp.timestamp)
             fee     == inp.close[j] * pos.position_size * inp.exit_fee_rate
         IN  IF hit_sl \/ hit_tp \/ expired
             THEN ClosePosition(pos, j, hit_sl, hit_tp, inp.close[j],
                                inp.exit_fee_rate, inp.slippage_rate)
             ELSE ExitLoopWritesEveryBar([pos EXCEPT !.fee_exit = fee], j + 1, n, inp)

\* "for j in pos.entry_index..n" from bar j on.
RECURSIVE ExitLoop(_, _, _, _)
ExitLoop(pos, j, n, inp) ==
    IF j >= n THEN pos
    ELSE LET hit_sl  == HitSl(pos, j, inp.high, inp.low)
             hit_tp  == HitTp(pos, j, inp.high, inp.low)
             expired == Expired(pos, j, inp.timestamp)
         IN  IF hit_sl \/ hit_tp \/ expired
             THEN ClosePosition(pos, j, hit_sl, hit_tp, inp.close[j],
                                inp.exit_fee_rate, inp.slippage_rate)
             ELSE ExitLoop(pos, j + 1, n, inp)

\* The closure without its first statement "if pos.is_closed { return; }".
SimulateOneNoSkip(pos, inp) ==
    ExitLoop(pos, FirstScanBar(pos), ALen(inp.high), inp)

\* The closure run on one position.
SimulateOne(pos, inp) ==
    IF pos.is_closed THEN pos
    ELSE ExitLoop(pos, FirstScanBar(pos), ALen(inp.high), inp)

\* -------------------------------------------------- compute_exposure_series

\* Mutant of RecordExit: the exit does not release the exposure.
RecordExitNoRelease(ev, pos) ==
    IF IsSome(pos.exit_index)
    THEN [ev EXCEPT !.realized_events[Unwrap(pos.exit_index)] =
                        @ + (IF IsSome(pos.pnl) THEN Unwrap(pos.pnl) ELSE 0)]
    ELSE ev

\* "record realized PnL at exit": the events of the exit of pos, if it has one.
RecordExit(ev, pos) ==
    IF IsSome(pos.exit_index)
    THEN LET exit_i == Unwrap(pos.exit_index)
             pnl    == IF IsSome(pos.pnl) THEN Unwrap(pos.pnl) ELSE 0
         IN  IF pos.position_type = "long"
             THEN [ev EXCEPT !.realized_events[exit_i] = @ + pnl,
                             !.long_delta[exit_i] = @ - pos.position_size]
             ELSE [ev EXCEPT !.realized_events[exit_i] = @ + pnl,
                             !.short_delta[exit_i] = @ - pos.position_size]
    ELSE ev

\* "add exposure at entry"
RecordEntry(ev, pos) ==
    IF pos.position_type = "long"
    THEN [ev EXCEPT !.long_delta[pos.entry_index] = @ + pos.position_size]
    ELSE [ev EXCEPT !.short_delta[pos.entry_index] = @ + pos.position_size]

\* One pass of "for pos in positions" over the event arrays ev.
RecordEvents(ev, pos) == RecordEntry(RecordExit(ev, pos), pos)

RECURSIVE EventArrays(_, _, _)
EventArrays(ps, k, ev) ==
    IF k > Len(ps) THEN ev
    ELSE EventArrays(ps, k + 1, RecordEvents(ev, ps[k]))

\* The filter of the floating-PnL loop.
\* The filter that keeps a position on its exit bar too.
StillOpenAtExitBar(p, i) ==
    p.entry_index <= i /\ (IF IsSome(p.exit_index) THEN Unwrap(p.exit_index) >= i ELSE TRUE)

StillOpenAt(p, i) ==
    p.entry_index <= i /\ (IF IsSome(p.exit_index) THEN Unwrap(p.exit_index) > i ELSE TRUE)

FloatContribution(pos, price_i) ==
    IF pos.position_type = "long"
    THEN (price_i - pos.entry_price) * pos.position_size
    ELSE (pos.entry_price - price_i) * pos.position_size

RECURSIVE FloatPnl(_, _, _, _)
FloatPnl(ps, k, i, price_i) ==
    IF k > Len(ps) THEN 0
    ELSE (IF StillOpenAt(ps[k], i) THEN FloatContribution(ps[k], price_i) ELSE 0)
         + FloatPnl(ps, k + 1, i, price_i)

\* total_equity of a snapshot: initial_equity is passed in and not used.
TotalEquity(initial_equity, cum_realized, float_pnl) == cum_realized + float_pnl

Snapshot(ts_i, long_exp, short_exp, cum_realized, float_pnl, initial_equity) ==
    [ timestamp       |-> ts_i,
      long_exposure   |-> long_exp,
      short_exposure  |-> short_exp,
      total_exposure  |-> long_exp + short_exp,
      realized_equity |-> cum_realized,
      floating_pnl    |-> float_pnl,
      total_equity    |-> TotalEquity(initial_equity, cum_realized, float_pnl) ]

\* Mutant of Running: the event of bar i is added one bar late.
RECURSIVE RunningLate(_, _)
RunningLate(arr, i) == IF i < 1 THEN 0 ELSE RunningLate(arr, i - 1) + arr[i - 1]

\* The prefix sum ev[0] + ... + ev[i] the per-bar loop has accumulated at bar i.
RECURSIVE Running(_, _)
Running(arr, i) == IF i < 0 THEN 0 ELSE Running(arr, i - 1) + arr[i]

compute_exposure_series(ps, price, timestamps, initial_equity) ==
    LET n    == ALen(price)
        zero == [b \in 0..(n - 1) |-> 0]
        ev   == EventArrays(ps, 1, [realized_events |-> zero, long_delta |-> zero,
                                    short_delta |-> zero])
    IN  [i \in 0..(n - 1) |->
            Snapshot(timestamps[i], Running(ev.long_delta, i), Running(ev.short_delta, i),
                     Running(ev.realized_events, i), FloatPnl(ps, 1, i, price[i]),
                     initial_equity)]

\* ----------------------------------------------------------------- actions

\* ----------------------------------------------------------------- metrics

\* Arithmetic on quotients <<num, den>>.  f64::INFINITY as a quotient is 1/0.
QAdd(a, b) == Quot(a[1] * b[2] + b[1] * a[2], a[2] * b[2])
QOver(a, m) == Quot(a[1], a[2] * m)
QPos(a) == IF a[2] < 0 THEN Quot(0 - a[1], 0 - a[2]) ELSE a
QLt(a, b) == QPos(a)[1] * QPos(b)[2] < QPos(b)[1] * QPos(a)[2]
QEq(a, b) == QPos(a)[1] * QPos(b)[2] = QPos(b)[1] * QPos(a)[2]
QMax(a, b) == IF QLt(a, b) THEN b ELSE a
QZero == Quot(0, 1)
QInfinity == Quot(1, 0)

RECURSIVE QSum(_)
QSum(qs) == IF Len(qs) = 0 THEN QZero ELSE QAdd(Head(qs), QSum(Tail(qs)))

RECURSIVE SeqSum(_)
SeqSum(xs) == IF Len(xs) = 0 THEN 0 ELSE Head(xs) + SeqSum(Tail(xs))

\* sort_by_key(|p| p.exit_index.unwrap_or(usize::MAX)), a stable sort: p goes
\* behind every trade whose key is not larger.
SortKey(p) == IF IsSome(p.exit_index) THEN Unwrap(p.exit_index) ELSE Inf

RECURSIVE InsertByExit(_, _)
InsertByExit(ordered, p) ==
    IF Len(ordered) = 0 THEN <<p>>
    ELSE IF SortKey(Head(ordered)) <= SortKey(p)
         THEN <<Head(ordered)>> \o InsertByExit(Tail(ordered), p)
         ELSE <<p>> \o ordered

RECURSIVE SortByExit(_)
SortByExit(trades) ==
    IF Len(trades) = 0 THEN <<>>
    ELSE InsertByExit(SortByExit(SubSeq(trades, 1, Len(trades) - 1)), trades[Len(trades)])

TradePnl(pos) == IF IsSome(pos.pnl) THEN Unwrap(pos.pnl) ELSE 0

\* r_i = PnL_i / (entry_price * position_size), 0 when the notional is 0.
TradeReturn(pos) ==
    LET notional == pos.entry_price * pos.position_size
    IN  IF notional # 0 THEN Quot(TradePnl(pos), notional) ELSE QZero

TradeDuration(pos) == Abs(Unwrap(pos.exit_index) - pos.entry_index)

\* "if pnl > 0.0 { sum_wins += pnl; wins += 1 } else if pnl < 0.0 { sum_losses
\* += -pnl; losses += 1 }" over the trades.
\* A trade of zero pnl taken as a win.
IsWinOrFlat(pnl) == pnl >= 0

IsWin(pnl) == pnl > 0
IsLoss(pnl) == ~(pnl > 0) /\ pnl < 0

WinRate(wins, n) == IF n > 0 THEN Quot(wins, n) ELSE QZero
LossRate(losses, n) == IF n > 0 THEN Quot(losses, n) ELSE QZero

ProfitFactor(sum_wins, sum_losses) ==
    IF sum_losses > 0 THEN Quot(sum_wins, sum_losses) ELSE QInfinity

compute_trade_metrics(trades) ==
    LET ordered       == SortByExit(trades)
        n             == Len(ordered)
        trade_pnls    == [k \in 1..n |-> TradePnl(ordered[k])]
        trade_returns == [k \in 1..n |-> TradeReturn(ordered[k])]
        durations     == [k \in 1..n |-> TradeDuration(ordered[k])]
        win_pnls      == SelectSeq(trade_pnls, IsWin)
        loss_pnls     == SelectSeq(trade_pnls, IsLoss)
        sum_wins      == SeqSum(win_pnls)
        sum_losses    == 0 - SeqSum(loss_pnls)
        wins          == Len(win_pnls)
        losses        == Len(loss_pnls)
        avg_ret       == IF n > 0 THEN QOver(QSum(trade_returns), n) ELSE QZero
    IN  [ number_of_trades     |-> n,
          win_rate             |-> WinRate(wins, n),
          loss_rate            |-> LossRate(losses, n),
          average_trade_return |-> avg_ret,
          average_trade_pnl    |-> IF n > 0 THEN Quot(SeqSum(trade_pnls), n) ELSE QZero,
          profit_factor        |-> ProfitFactor(sum_wins, sum_losses),
          expectancy           |-> avg_ret,
          average_duration     |-> IF n > 0 THEN Quot(SeqSum(durations), n) ELSE QZero,
          trade_returns        |-> trade_returns,
          trade_pnls           |-> trade_pnls,
          durations            |-> durations ]

\* R_t = (cur - prev) / prev, 0 when prev is 0, for bars 1..n-1.
BarReturn(prev, cur) == IF prev # 0 THEN Quot(cur - prev, prev) ELSE QZero

\* The drawdown loop that returns the drawdown of the last bar, not the largest.
RECURSIVE DrawdownOfLastBar(_, _, _, _)
DrawdownOfLastBar(exposure, i, peak, max_dd) ==
    IF i >= ALen(exposure) THEN max_dd
    ELSE LET eq       == exposure[i].total_equity
             new_peak == IF eq > peak THEN eq ELSE peak
             dd       == IF new_peak # 0 THEN Quot(new_peak - eq, new_peak) ELSE QZero
         IN  DrawdownOfLastBar(exposure, i + 1, new_peak, dd)

\* The drawdown loop from snapshot i on, peak and max_dd being the running
\* values.
RECURSIVE DrawdownFrom(_, _, _, _)
DrawdownFrom(exposure, i, peak, max_dd) ==
    IF i >= ALen(exposure) THEN max_dd
    ELSE LET eq       == exposure[i].total_equity
             new_peak == IF eq > peak THEN eq ELSE peak
             dd       == IF new_peak # 0 THEN Quot(new_peak - eq, new_peak) ELSE QZero
         IN  DrawdownFrom(exposure, i + 1, new_peak, QMax(max_dd, dd))

\* compute_time_metrics on a curve of at least one snapshot.  volatility and
\* sharpe_ratio are a square root and a quotient by it, which have no exact
\* value here; they are functions of returns alone and are left out.
TimeMetrics(exposure) ==
    LET n       == ALen(exposure)
        returns == [i \in 1..(n - 1) |->
                      BarReturn(exposure[i - 1].total_equity, exposure[i].total_equity)]
        m       == Len(returns)
        first   == exposure[0].total_equity
    IN  [ returns           |-> returns,
          mean_return       |-> IF m > 0 THEN QOver(QSum(returns), m) ELSE QZero,
          cumulative_return |-> IF first # 0
                                THEN Quot(exposure[n - 1].total_equity - first, first)
                                ELSE QZero,
          max_drawdown      |-> DrawdownFrom(exposure, 0, first, QZero) ]

\* compute_time_metrics: exposure[0] is read whatever the length, which panics
\* on an empty curve.
compute_time_metrics(exposure) ==
    IF ALen(exposure) = 0 THEN [panic |-> TRUE, metrics |-> <<>>]
    ELSE [panic |-> FALSE, metrics |-> TimeMetrics(exposure)]

\* The LONG filter that lets every position through.
IsAnySide(p) == p.position_type \in {"long", "short"}

IsLong(p) == p.position_type = "long"
IsShort(p) == p.position_type = "short"

SideMetrics(total_return, total_pnl, trade_metrics, time_metrics) ==
    [ total_return  |-> total_return,
      total_pnl     |-> total_pnl,
      trade_metrics |-> trade_metrics,
      time_metrics  |-> time_metrics ]

compute_summary_metrics(initial_equity, closed_trades, exposure) ==
    LET tm_all   == compute_trade_metrics(closed_trades)
        tm_long  == compute_trade_metrics(SelectSeq(closed_trades, IsLong))
        tm_short == compute_trade_metrics(SelectSeq(closed_trades, IsShort))
        ts_all   == compute_time_metrics(exposure)
    IN  IF ts_all.panic THEN [panic |-> TRUE, metrics |-> <<>>]
        ELSE LET final_snap == Last(exposure)
                 total_pnl  == final_snap.realized_equity + final_snap.floating_pnl
                 total_ret  == ts_all.metrics.cumulative_return
             IN  [ panic   |-> FALSE,
                   metrics |->
                     [ overall |-> SideMetrics(total_ret, total_pnl, tm_all, ts_all.metrics),
                       longs   |-> SideMetrics(total_ret, SeqSum(tm_long.trade_pnls),
                                               tm_long, ts_all.metrics),
                       shorts  |-> SideMetrics(total_ret, SeqSum(tm_short.trade_pnls),
                                               tm_short, ts_all.metrics) ] ]

\* ----------------------------------------------------------------- the run

Init ==
    /\ (ValidInput(input) \/ InvalidInput(input) \/ EmptyInput(input) \/ ScenarioInput(input))
    /\ summary_metrics = <<>>
    /\ pc = "validate"
    /\ error = "NONE"
    /\ positions = <<>>
    /\ visited = {}
    /\ exposure_series = <<>>
    /\ closed = <<>>
    /\ open_ = <<>>

\* run_backtest, steps 1 to 2b: the run goes on, fails with an error value, or
\* panics.
DoValidate ==
    /\ pc = "validate"
    /\ error' = Validate(input)
    /\ pc' = CASE error' = "OK"    -> "entries"
               [] error' = "PANIC" -> "panicked"
               [] OTHER            -> "failed"
    /\ UNCHANGED <<input, positions, visited, exposure_series, closed, open_, summary_metrics>>

\* run_backtest, step 3.
DoScanEntries ==
    /\ pc = "entries"
    /\ LET r == scan_entries(input)
       IN  /\ positions' = r.positions
           /\ pc' = IF r.panic THEN "panicked" ELSE "exits"
           /\ error' = IF r.panic THEN "PANIC" ELSE error
    /\ visited' = {}
    /\ UNCHANGED <<input, exposure_series, closed, open_, summary_metrics>>

\* A worker that also writes the closed flag of its position into the next
\* position, when that one has not been processed yet.
ExitWorkerWritesNext(k) ==
    /\ pc = "exits"
    /\ k \in (1..Len(positions)) \ visited
    /\ LET own == SimulateOne(positions[k], input)
       IN  positions' = [i \in 1..Len(positions) |->
                           IF i = k THEN own
                           ELSE IF i = k + 1 /\ i \notin visited
                                THEN [positions[i] EXCEPT !.is_closed = own.is_closed]
                                ELSE positions[i]]
    /\ visited' = visited \cup {k}
    /\ UNCHANGED <<input, pc, error, exposure_series, closed, open_, summary_metrics>>

\* run_backtest, step 4: the rayon worker of position k runs the closure on it.
ExitWorker(k) ==
    /\ pc = "exits"
    /\ k \in (1..Len(positions)) \ visited
    /\ positions' = [positions EXCEPT ![k] = SimulateOne(@, input)]
    /\ visited' = visited \cup {k}
    /\ UNCHANGED <<input, pc, error, exposure_series, closed, open_, summary_metrics>>

\* run_backtest, step 5, once every worker has returned.
DoExposure ==
    /\ pc = "exits"
    /\ visited = 1..Len(positions)
    /\ exposure_series' = compute_exposure_series(positions, input.close, input.timestamp,
                                                  input.initial_equity)
    /\ pc' = "partition"
    /\ UNCHANGED <<input, error, positions, visited, closed, open_, summary_metrics>>

\* run_backtest, the closed/open partition of the result.
DoPartition ==
    /\ pc = "partition"
    /\ closed' = SelectSeq(positions, LAMBDA p : p.is_closed)
    /\ open_' = SelectSeq(positions, LAMBDA p : ~p.is_closed)
    /\ pc' = "metrics"
    /\ UNCHANGED <<input, error, positions, visited, exposure_series, summary_metrics>>

\* run_backtest, the summary metrics of the closed positions and the curve; the
\* run ends with its result, or panics.
DoMetrics ==
    /\ pc = "metrics"
    /\ LET r == compute_summary_metrics(input.initial_equity, closed, exposure_series)
       IN  /\ summary_metrics' = r.metrics
           /\ pc' = IF r.panic THEN "panicked" ELSE "done"
           /\ error' = IF r.panic THEN "PANIC" ELSE error
    /\ UNCHANGED <<input, positions, visited, exposure_series, closed, open_>>

Next ==
    \/ DoValidate
    \/ DoScanEntries
    \/ \E k \in 1..Len(positions) : ExitWorker(k)
    \/ DoExposure
    \/ DoPartition
    \/ DoMetrics

Spec == Init /\ [][Next]_vars

\* ------------------------------------------- the metrics of any equity curve

\* Largest number of snapshots of a curve, and largest absolute total_equity.
MaxCurveLen == 3
MaxEquity == 2

\* A snapshot of total_equity e: all of it realized, no exposure.
CurveSnapshot(i, e) == Snapshot(TimestampAt(i), 0, 0, e, 0, 0)

\* compute_summary_metrics is called on an equity curve of one to MaxCurveLen
\* snapshots with any total_equity of -MaxEquity..MaxEquity, and no trade.
CurveInit ==
    /\ \E n \in 1..MaxCurveLen :
         \E es \in [0..(n - 1) -> (0 - MaxEquity)..MaxEquity] :
           exposure_series = [i \in 0..(n - 1) |-> CurveSnapshot(i, es[i])]
    /\ EmptyInput(input) /\ ZeroRatesOf(input)
    /\ pc = "metrics"
    /\ error = "OK"
    /\ positions = <<>>
    /\ visited = {}
    /\ closed = <<>>
    /\ open_ = <<>>
    /\ summary_metrics = <<>>

CurveNext == DoMetrics

CurveSpec == CurveInit /\ [][CurveNext]_vars

\* ------------------------------------------------- vocabulary of the claims

\* Number of bars of a validated input.
NBars == ALen(input.timestamp)

\* The run has passed validation and scan_entries has produced the positions.
Scanned == pc \in {"exits", "partition", "metrics", "done"}

\* Every exit worker has returned.
Simulated == pc \in {"partition", "metrics", "done"}

HasSignal(i) == input.long_signals[i] \/ input.short_signals[i]
SignalBarSet == {i \in 0..(NBars - 1) : HasSignal(i)}

\* The k-th signal bar in ascending order, k = 1, 2, ...
SignalBarOf(k) ==
    CHOOSE i \in SignalBarSet : Cardinality({b \in SignalBarSet : b < i}) = k - 1

\* The exit predicates of position p on bar j, read off the input arrays.
SlAt(p, j) ==
    IF p.position_type = "long" THEN input.low[j] <= p.sl ELSE input.high[j] >= p.sl
TpAt(p, j) ==
    IF p.position_type = "long" THEN input.high[j] >= p.tp ELSE input.low[j] <= p.tp
ExpAt(p, j) ==
    p.expiration_time # None /\ input.timestamp[j] >= p.expiration_time[1]
TriggerAt(p, j) == SlAt(p, j) \/ TpAt(p, j) \/ ExpAt(p, j)

\* A price after exit slippage: against the position.
Slipped(p, raw) ==
    IF p.position_type = "long"
    THEN raw * (1 - input.slippage_rate) ELSE raw * (1 + input.slippage_rate)

\* ------------------------------------------------------------------ claims

\* C1: a closed position's exit_condition is SL if the SL predicate holds on its
\* exit bar, otherwise TP if the TP predicate holds, otherwise EXP, and its exit
\* price is sl, tp or close[j] respectively (before slippage); SL wins when SL
\* and TP hold on the same bar.
C1_ExitPrecedence ==
    Scanned =>
      \A k \in visited :
        LET p == positions[k] IN
        p.is_closed =>
          LET j == p.exit_index[1] IN
          /\ SlAt(p, j) =>
               p.exit_condition = <<"SL">> /\ p.exit_price = <<Slipped(p, p.sl)>>
          /\ ~SlAt(p, j) /\ TpAt(p, j) =>
               p.exit_condition = <<"TP">> /\ p.exit_price = <<Slipped(p, p.tp)>>
          /\ ~SlAt(p, j) /\ ~TpAt(p, j) =>
               p.exit_condition = <<"EXP">> /\ p.exit_price = <<Slipped(p, input.close[j])>>

\* A position closed as SL at sl on a bar where the TP predicate holds as well,
\* with sl and tp giving different prices.
C1_Witness ==
    /\ Scanned
    /\ \E k \in visited :
         LET p == positions[k] IN
         /\ p.is_closed
         /\ SlAt(p, p.exit_index[1]) /\ TpAt(p, p.exit_index[1])
         /\ p.exit_condition = <<"SL">>
         /\ p.exit_price = <<p.sl>>
         /\ p.sl # p.tp

\* C2: exit_index is the smallest bar j in entry_index..N-1 on which hit_sl,
\* hit_tp or expired holds (the entry bar included), and the position stays open
\* exactly when no such bar exists.
C2_FirstTriggerBar ==
    Scanned =>
      \A k \in visited :
        LET p == positions[k]
            T == {j \in p.entry_index..(NBars - 1) : TriggerAt(p, j)}
        IN  /\ p.is_closed <=> T # {}
            /\ p.is_closed =>
                 /\ p.exit_index[1] \in T
                 /\ \A j \in T : p.exit_index[1] <= j

\* One position closed on its entry bar and another closed on a later bar than
\* its entry bar, after earlier bars without a trigger.
C2_Witness ==
    /\ Scanned
    /\ \E k \in visited :
         positions[k].is_closed /\ positions[k].exit_index[1] = positions[k].entry_index
    /\ \E k \in visited :
         positions[k].is_closed /\ positions[k].exit_index[1] > positions[k].entry_index

\* C3: the position of a signal on bar i has entry_index i+1 when i+1 < N and
\* N-1 (= i) when i is the last bar, so entry_index >= i; the position of a
\* signal on the last bar stays open unless an exit predicate holds on bar N-1.
C3_EntryIndex ==
    Scanned =>
      \A k \in 1..Len(positions) :
        LET p == positions[k]
            i == SignalBarOf(k)
        IN  /\ i + 1 < NBars => p.entry_index = i + 1
            /\ i = NBars - 1 => p.entry_index = NBars - 1
            /\ p.entry_index >= i
            /\ i = NBars - 1 /\ k \in visited =>
                 (p.is_closed <=> TriggerAt(p, NBars - 1))

\* A signal on the last bar of several whose position was simulated and stays open.
C3_Witness ==
    /\ Scanned
    /\ NBars > 1
    /\ \E k \in visited :
         /\ SignalBarOf(k) = NBars - 1
         /\ positions[k].entry_index = NBars - 1
         /\ ~positions[k].is_closed

\* C4: scan_entries emits one position per signal bar, with the side of the
\* signal, in ascending order of signal bar (the sizes of the k-th position are
\* those of the k-th signal bar); closed plus open positions of the result are
\* as many as the signal bars.
C4_OnePositionPerSignal ==
    /\ Scanned =>
         /\ Len(positions) = Cardinality(SignalBarSet)
         /\ \A k \in 1..Len(positions) :
              LET p == positions[k]
                  i == SignalBarOf(k)
              IN  /\ p.position_type = (IF input.long_signals[i] THEN "long" ELSE "short")
                  /\ p.position_size = (IF input.long_signals[i] THEN input.long_size[i]
                                        ELSE input.short_size[i])
    /\ pc = "done" => Len(closed) + Len(open_) = Cardinality(SignalBarSet)

\* A finished run with a long and a short signal, one position closed, one open.
C4_Witness ==
    /\ pc = "done"
    /\ Len(positions) = 2
    /\ positions[1].position_type # positions[2].position_type
    /\ Len(closed) = 1 /\ Len(open_) = 1

\* C5: after exit simulation is_closed holds exactly when exit_index, exit_price,
\* exit_condition, pnl, absolute_return and real_return are all set, all of them
\* are unset when it does not, and a closed position has
\* entry_index <= exit_index < N.
C5_ExitFieldsJointlySet ==
    Simulated =>
      \A k \in 1..Len(positions) :
        LET p == positions[k]
            allSet == /\ p.exit_index # None /\ p.exit_price # None
                      /\ p.exit_condition # None /\ p.pnl # None
                      /\ p.absolute_return # None /\ p.real_return # None
            allUnset == /\ p.exit_index = None /\ p.exit_price = None
                        /\ p.exit_condition = None /\ p.pnl = None
                        /\ p.absolute_return = None /\ p.real_return = None
        IN  /\ p.is_closed <=> allSet
            /\ ~p.is_closed => allUnset
            /\ p.is_closed =>
                 p.entry_index <= p.exit_index[1] /\ p.exit_index[1] < NBars

\* After exit simulation, a closed position next to an open one.
C5_Witness ==
    /\ Simulated
    /\ \E k \in 1..Len(positions) : positions[k].is_closed
    /\ \E k \in 1..Len(positions) : ~positions[k].is_closed

\* C6: a position carries the tp and sl of its signal bar i and
\* expiration_time = expiration_times[i] of the signal bar, so that, when SL and
\* TP are never hit, it closes with EXP at close[j] on the first bar
\* j >= entry_index with timestamp[j] >= expiration_times[i].
C6_LevelsOfSignalBar ==
    Scanned =>
      \A k \in 1..Len(positions) :
        LET p == positions[k]
            i == SignalBarOf(k)
            E == input.expiration_times[i]
            J == {j \in p.entry_index..(NBars - 1) : input.timestamp[j] >= E}
        IN  /\ p.tp = (IF input.long_signals[i] THEN input.long_tp[i] ELSE input.short_tp[i])
            /\ p.sl = (IF input.long_signals[i] THEN input.long_sl[i] ELSE input.short_sl[i])
            /\ p.expiration_time = <<E>>
            /\ k \in visited /\ J # {}
               /\ (\A j \in p.entry_index..(NBars - 1) : ~SlAt(p, j) /\ ~TpAt(p, j)) =>
                 LET j0 == CHOOSE j \in J : \A j2 \in J : j <= j2
                 IN  /\ p.is_closed
                     /\ p.exit_index = <<j0>>
                     /\ p.exit_condition = <<"EXP">>
                     /\ p.exit_price = <<Slipped(p, input.close[j0])>>

\* C7: total_equity = initial_equity + realized_equity + floating_pnl on every
\* snapshot.
C7_TotalEquityIncludesInitial ==
    Simulated =>
      \A i \in 0..(NBars - 1) :
        exposure_series[i].total_equity =
          input.initial_equity + exposure_series[i].realized_equity
          + exposure_series[i].floating_pnl

\* What the code computes in place of C7: total_equity = realized_equity +
\* floating_pnl whatever initial_equity is, so that with no positions at all
\* total_equity is 0 on every bar.
C7_TotalEquityIsPnl ==
    Simulated =>
      \A i \in 0..(NBars - 1) :
        /\ exposure_series[i].total_equity =
             exposure_series[i].realized_equity + exposure_series[i].floating_pnl
        /\ Len(positions) = 0 => exposure_series[i].total_equity = 0

\* Where C7 fails: a run with a non-zero initial equity and a snapshot whose
\* realized and floating parts are both non-zero.
C7_Witness ==
    /\ Simulated
    /\ input.initial_equity # 0
    /\ \E i \in 0..(NBars - 1) :
         /\ exposure_series[i].realized_equity # 0
         /\ exposure_series[i].floating_pnl # 0

\* The sum of f[k] over the position indices k of S.
RECURSIVE SumOver(_, _)
SumOver(S, f) ==
    IF S = {} THEN 0
    ELSE LET k == CHOOSE x \in S : TRUE
         IN  f[k] + SumOver(S \ {k}, f)

SizeOf == [k \in 1..Len(positions) |-> positions[k].position_size]
PnlOf == [k \in 1..Len(positions) |->
            IF positions[k].pnl # None THEN positions[k].pnl[1] ELSE 0]

\* The positions of a side that hold exposure on bar i.
Holding(side, i) ==
    {k \in 1..Len(positions) :
        /\ positions[k].position_type = side
        /\ positions[k].entry_index <= i
        /\ (~positions[k].is_closed \/ positions[k].exit_index[1] > i)}

StillOpen(side) ==
    {k \in 1..Len(positions) :
        positions[k].position_type = side /\ ~positions[k].is_closed}

\* C8: on every bar i, long_exposure is the summed size of the LONG positions
\* with entry_index <= i that are open or have exit_index > i, short_exposure
\* likewise; neither is negative; on bar N-1 they are the summed sizes of the
\* still-open LONGs and SHORTs.
C8_ExposureConservation ==
    Simulated =>
      /\ \A i \in 0..(NBars - 1) :
           /\ exposure_series[i].long_exposure = SumOver(Holding("long", i), SizeOf)
           /\ exposure_series[i].short_exposure = SumOver(Holding("short", i), SizeOf)
           /\ exposure_series[i].long_exposure >= 0
           /\ exposure_series[i].short_exposure >= 0
      /\ \A i \in {NBars - 1} \cap (0..(NBars - 1)) :
           /\ exposure_series[i].long_exposure = SumOver(StillOpen("long"), SizeOf)
           /\ exposure_series[i].short_exposure = SumOver(StillOpen("short"), SizeOf)

\* A position closed on its entry bar next to a LONG that is still open on the
\* last bar and holds the whole long exposure there.
C8_Witness ==
    /\ Simulated
    /\ \E k \in 1..Len(positions) :
         positions[k].is_closed /\ positions[k].exit_index[1] = positions[k].entry_index
    /\ \E k \in 1..Len(positions) :
         /\ positions[k].position_type = "long" /\ ~positions[k].is_closed
         /\ exposure_series[NBars - 1].long_exposure = positions[k].position_size
         /\ positions[k].position_size > 0

\* The closed positions with exit_index in bars a..b.
ExitedIn(a, b) ==
    {k \in 1..Len(positions) :
        /\ positions[k].is_closed
        /\ positions[k].exit_index[1] >= a
        /\ positions[k].exit_index[1] <= b}

\* C9: realized_equity of snapshot i is the sum of pnl over the closed positions
\* with exit_index <= i; from one bar to the next it changes by the pnl realized
\* on that bar; on bar N-1 it is the sum of pnl over all closed positions.
C9_RealizedRunningSum ==
    Simulated =>
      /\ \A i \in 0..(NBars - 1) :
           /\ exposure_series[i].realized_equity = SumOver(ExitedIn(0, i), PnlOf)
           /\ i > 0 =>
                exposure_series[i].realized_equity - exposure_series[i - 1].realized_equity
                  = SumOver(ExitedIn(i, i), PnlOf)
      /\ \A i \in {NBars - 1} \cap (0..(NBars - 1)) :
           exposure_series[i].realized_equity =
             SumOver({k \in 1..Len(positions) : positions[k].is_closed}, PnlOf)

\* Two positions closed on different bars, each with a non-zero pnl.
C9_Witness ==
    /\ Simulated
    /\ \E i \in 1..(NBars - 1) :
         /\ exposure_series[i - 1].realized_equity # 0
         /\ exposure_series[i].realized_equity # exposure_series[i - 1].realized_equity

\* The checks of the claim, read off the input.
LengthsDiffer(inp) ==
    \E a \in { ALen(inp.open), ALen(inp.high), ALen(inp.low), ALen(inp.close),
               ALen(inp.long_signals), ALen(inp.short_signals), ALen(inp.long_tp),
               ALen(inp.long_sl), ALen(inp.short_tp), ALen(inp.short_sl),
               ALen(inp.long_size), ALen(inp.short_size), ALen(inp.expiration_times) } :
      a # ALen(inp.timestamp)

NonFinitePrice(inp) ==
    \E a \in {inp.open, inp.high, inp.low, inp.close} :
      \E i \in DOMAIN a : a[i] \in {NaN, Inf, 0 - Inf}

TimestampsNotIncreasing(inp) ==
    \E i \in DOMAIN inp.timestamp :
      i + 1 \in DOMAIN inp.timestamp /\ inp.timestamp[i + 1] <= inp.timestamp[i]

SignalConflict(inp) ==
    \E i \in DOMAIN inp.long_signals \cap DOMAIN inp.short_signals :
      inp.long_signals[i] /\ inp.short_signals[i]

ExpirationInPast(inp) ==
    \E i \in DOMAIN inp.expiration_times \cap DOMAIN inp.timestamp :
      inp.expiration_times[i] < inp.timestamp[i]

\* The error kind of the earliest violated check in the order of the claim.
FirstViolatedCheck(inp) ==
    CASE LengthsDiffer(inp)           -> "LENGTH_MISMATCH"
      [] NonFinitePrice(inp)          -> "NON_FINITE_PRICE"
      [] TimestampsNotIncreasing(inp) -> "TIMESTAMPS_NOT_INCREASING"
      [] SignalConflict(inp)          -> "SIGNAL_CONFLICT"
      [] ExpirationInPast(inp)        -> "EXPIRATION_IN_PAST"
      [] OTHER                        -> "OK"

\* C10: a run that fails validation fails with the error kind of the earliest
\* violated check in the order lengths, finite prices, increasing timestamps,
\* signal conflict, expiration.
C10_ValidationOrder ==
    pc = "failed" => error = FirstViolatedCheck(input)

\* The input violates no check of the claims other than the equal lengths.
OnlyLengthsDiffer(inp) ==
    /\ LengthsDiffer(inp)
    /\ ~NonFinitePrice(inp) /\ ~TimestampsNotIncreasing(inp)
    /\ ~SignalConflict(inp) /\ ~ExpirationInPast(inp)

\* C11: an input with an array of another length than timestamp, shorter or
\* longer, makes run_backtest return a LENGTH_MISMATCH error value: no index out
\* of bounds before the length check, no result.  Stated for the inputs whose
\* only fault is a length, so that the order of the checks (C10) plays no part.
C11_LengthMismatchIsReported ==
    pc # "validate" /\ OnlyLengthsDiffer(input) =>
      pc = "failed" /\ error = "LENGTH_MISMATCH"

\* The input violates no check of the claims other than the finite prices.
OnlyNonFinitePrice(inp) ==
    /\ NonFinitePrice(inp)
    /\ ~LengthsDiffer(inp) /\ ~TimestampsNotIncreasing(inp)
    /\ ~SignalConflict(inp) /\ ~ExpirationInPast(inp)

\* C12: a NaN, +infinity or -infinity among open, high, low, close makes the
\* run fail with NON_FINITE_PRICE, and no position is created.  Stated for the
\* inputs whose only fault is the non-finite price.
C12_NonFinitePriceIsReported ==
    pc # "validate" /\ OnlyNonFinitePrice(input) =>
      pc = "failed" /\ error = "NON_FINITE_PRICE" /\ positions = <<>>

\* C13: validation is total.  Whenever a validation check is violated, the run
\* fails with an error value, and entry scanning, exit simulation, exposure and
\* metrics have not run: no position, no snapshot, no partial result.
C13_ValidationIsTotal ==
    pc # "validate" /\ FirstViolatedCheck(input) # "OK" =>
      /\ pc = "failed"
      /\ error \notin {"NONE", "OK", "PANIC"}
      /\ Len(positions) = 0 /\ ALen(exposure_series) = 0
      /\ Len(closed) = 0 /\ Len(open_) = 0 /\ summary_metrics = <<>>

\* C14: an input of no bars is rejected by validation with a failure value: the
\* pipeline is never entered with zero bars, and the run does not crash.
C14_EmptyInputIsRejected ==
    pc # "validate" /\ NBars = 0 => pc = "failed"

\* Where the run on an input of no bars ends: it has passed validation and
\* every stage up to the metrics, and has panicked there.
C14_EmptyInputPanics ==
    NBars = 0 /\ pc = "panicked" /\ ALen(exposure_series) = 0 /\ Len(closed) = 0

\* The positions as scan_entries created them.
Created == scan_entries(input).positions

\* simulate_position_exits run by one worker, positions k, k+1, ... in creation
\* order.
RECURSIVE SequentialExits(_, _, _)
SequentialExits(ps, k, inp) ==
    IF k > Len(ps) THEN ps
    ELSE SequentialExits([ps EXCEPT ![k] = SimulateOne(@, inp)], k + 1, inp)

\* C15: the parallel exit simulation does not depend on the order of the
\* workers.  While workers run, a processed position is what the closure makes
\* of the created position and the bar arrays alone, and an unprocessed one is
\* still as created; when all have returned, the vector is the one sequential
\* processing in creation order gives, a function of the input.
C15_OrderIndependent ==
    /\ pc = "exits" =>
         /\ Len(positions) = Len(Created)
         /\ \A k \in 1..Len(positions) :
              positions[k] = IF k \in visited THEN SimulateOne(Created[k], input)
                             ELSE Created[k]
    /\ Simulated => positions = SequentialExits(Created, 1, input)

\* The second position has been closed by its worker before the first one,
\* which will be closed too, has been processed.
C15_Witness ==
    /\ pc = "exits" /\ Len(positions) = 2 /\ visited = {2}
    /\ positions[2].is_closed
    /\ ~positions[1].is_closed /\ SimulateOne(positions[1], input).is_closed

\* C16: a position goes from open to closed at most once and never back, and
\* once closed none of its fields changes.  simulate_position_exits leaves a
\* position flagged closed as it is, and applied to its own output it changes
\* nothing.
C16_ClosedIsFinal ==
    /\ [](\A k \in 1..Len(positions) :
            /\ k \in visited => SimulateOne(positions[k], input) = positions[k]
            /\ LET flagged == [positions[k] EXCEPT !.is_closed = TRUE]
               IN  SimulateOne(flagged, input) = flagged)
    /\ [][\A k \in 1..Len(positions) :
            positions[k].is_closed =>
              k <= Len(positions') /\ positions'[k] = positions[k]]_vars

\* A processed position closed on a bar after which another bar triggers too,
\* next to one that is not processed yet and has a trigger ahead.
C16_Witness ==
    /\ pc = "exits"
    /\ \E k \in visited :
         /\ positions[k].is_closed
         /\ \E j \in (positions[k].exit_index[1] + 1)..(NBars - 1) : TriggerAt(positions[k], j)
    /\ \E k \in (1..Len(positions)) \ visited :
         \E j \in positions[k].entry_index..(NBars - 1) : TriggerAt(positions[k], j)

ZeroRates ==
    input.slippage_rate = 0 /\ input.entry_fee_rate = 0 /\ input.exit_fee_rate = 0

\* C17: the pnl of a closed position is (exit_price - entry_price) * size less
\* both fees for a LONG, (entry_price - exit_price) * size less both fees for a
\* SHORT.  With all rates zero a LONG closed at take-profit has pnl
\* (tp - open[entry_index]) * size and a SHORT closed at stop-loss has pnl
\* (open[entry_index] - sl) * size: +10 in scenario S1, -10 in scenario S2.
C17_PnlFormula ==
    Scanned =>
      \A k \in visited :
        LET p    == positions[k]
            fees == p.fee_entry + p.fee_exit
        IN  p.is_closed =>
              /\ p.position_type = "long" =>
                   p.pnl[1] = (p.exit_price[1] - p.entry_price) * p.position_size - fees
              /\ p.position_type = "short" =>
                   p.pnl[1] = (p.entry_price - p.exit_price[1]) * p.position_size - fees
              /\ ZeroRates /\ p.position_type = "long" /\ p.exit_condition = <<"TP">> =>
                   p.pnl[1] = (p.tp - input.open[p.entry_index]) * p.position_size
              /\ ZeroRates /\ p.position_type = "short" /\ p.exit_condition = <<"SL">> =>
                   p.pnl[1] = (input.open[p.entry_index] - p.sl) * p.position_size
              /\ input = Scenario("long") => p.exit_condition = <<"TP">> /\ p.pnl[1] = 10
              /\ input = Scenario("short") => p.exit_condition = <<"SL">> /\ p.pnl[1] = 0 - 10

\* Scenario S2 has run: its SHORT is closed at stop-loss; and (in another run)
\* a SHORT that paid both fees is closed with a pnl.
C17_Witness ==
    /\ Scanned
    /\ \E k \in visited :
         LET p == positions[k] IN
         /\ p.is_closed /\ p.position_type = "short"
         /\ \/ input = Scenario("short")
            \/ p.fee_entry > 0 /\ p.fee_exit > 0 /\ p.pnl[1] # 0 - (p.fee_entry + p.fee_exit)

\* C18: in a run that passed validation, a position whose expiration_time is
\* set has expiration_time >= timestamp[entry_index].
C18_ExpirationNotBeforeEntry ==
    Scanned =>
      \A k \in 1..Len(positions) :
        LET p == positions[k]
        IN  IsSome(p.expiration_time) =>
              p.expiration_time[1] >= input.timestamp[p.entry_index]

\* A position entered on the bar after its signal whose expiration is the
\* timestamp of its entry bar.
C18_Witness ==
    /\ Scanned
    /\ \E k \in 1..Len(positions) :
         LET p == positions[k] IN
         /\ IsSome(p.expiration_time)
         /\ p.expiration_time[1] = input.timestamp[p.entry_index]
         /\ p.entry_index > SignalBarOf(k)

\* The reflection of price x about price e.
Reflect(e, x) == 2 * e - x
ReflectAll(e, a) == [i \in DOMAIN a |-> Reflect(e, a[i])]

\* The input with LONG and SHORT exchanged and every price and level reflected
\* about e: highs become lows and lows highs.
MirrorInput(inp, e) ==
    [inp EXCEPT !.open          = ReflectAll(e, inp.open),
                !.high          = ReflectAll(e, inp.low),
                !.low           = ReflectAll(e, inp.high),
                !.close         = ReflectAll(e, inp.close),
                !.long_signals  = inp.short_signals,
                !.short_signals = inp.long_signals,
                !.long_tp       = ReflectAll(e, inp.short_tp),
                !.long_sl       = ReflectAll(e, inp.short_sl),
                !.short_tp      = ReflectAll(e, inp.long_tp),
                !.short_sl      = ReflectAll(e, inp.long_sl),
                !.long_size     = inp.short_size,
                !.short_size    = inp.long_size]

\* The k-th position of the run on the input mirrored about the entry price of
\* the k-th position of this run, after exit simulation.
MirrorOf(k) ==
    LET m == MirrorInput(input, positions[k].entry_price)
    IN  SimulateOne(scan_entries(m).positions[k], m)

\* The mirror of position k is on the other side, enters on the same bar at the
\* same price and closes, if at all, on the same bar by the same condition.
MirrorClosesAlike(k) ==
    LET p == positions[k]
        q == MirrorOf(k)
    IN  /\ q.position_type # p.position_type
        /\ q.entry_index = p.entry_index /\ q.entry_price = p.entry_price
        /\ q.position_size = p.position_size
        /\ q.is_closed = p.is_closed
        /\ q.exit_index = p.exit_index
        /\ q.exit_condition = p.exit_condition

Mirrorable == Scanned /\ ZeroRates /\ ~NonFinitePrice(input)

\* C19, as claimed: with no fee and no slippage, the mirror of a position
\* closes on the same bar and its PnL has the same magnitude and the opposite
\* sign.
C19_MirrorPnlOpposite ==
    Mirrorable =>
      \A k \in visited :
        /\ MirrorClosesAlike(k)
        /\ positions[k].is_closed => MirrorOf(k).pnl[1] = 0 - positions[k].pnl[1]

\* C19, as the code has it: with no fee and no slippage, the mirror of a
\* position closes on the same bar, and its PnL is the same, sign included.
C19_MirrorPnlEqual ==
    Mirrorable =>
      \A k \in visited :
        /\ MirrorClosesAlike(k)
        /\ MirrorOf(k).pnl = positions[k].pnl

\* A LONG closed at a gain on a bar after its entry bar, whose mirror is a
\* SHORT closed at the same gain.
C19_Witness ==
    /\ Mirrorable
    /\ \E k \in visited :
         LET p == positions[k] IN
         /\ p.is_closed /\ p.position_type = "long" /\ p.pnl[1] > 0
         /\ p.exit_index[1] > p.entry_index
         /\ MirrorOf(k).position_type = "short" /\ MirrorOf(k).pnl = p.pnl

Sides == {"overall", "longs", "shorts"}

\* The closed positions (indices into closed) of a side.
TradesOf(side) ==
    {k \in 1..Len(closed) :
       \/ side = "overall"
       \/ side = "longs" /\ closed[k].position_type = "long"
       \/ side = "shorts" /\ closed[k].position_type = "short"}

ClosedPnl == [k \in 1..Len(closed) |-> closed[k].pnl[1]]
ClosedLoss == [k \in 1..Len(closed) |-> 0 - closed[k].pnl[1]]

TradeMetricsOf(side) ==
    CASE side = "overall" -> summary_metrics.overall.trade_metrics
      [] side = "longs"   -> summary_metrics.longs.trade_metrics
      [] side = "shorts"  -> summary_metrics.shorts.trade_metrics

\* C20: for each of the subsets all, long, short of the closed positions, of n
\* trades: wins is the number of trades with pnl > 0, losses the number with
\* pnl < 0, a trade of zero pnl is in neither; win_rate = wins / n and
\* loss_rate = losses / n, both 0 when n = 0; profit_factor is +infinity
\* whenever the summed absolute losing pnl is 0, the empty subset included,
\* and the summed winning pnl over it otherwise.
C20_WinLossRates ==
    pc = "done" =>
      \A side \in Sides :
        LET S          == TradesOf(side)
            n          == Cardinality(S)
            wins       == Cardinality({k \in S : ClosedPnl[k] > 0})
            losses     == Cardinality({k \in S : ClosedPnl[k] < 0})
            sum_wins   == SumOver({k \in S : ClosedPnl[k] > 0}, ClosedPnl)
            sum_losses == SumOver({k \in S : ClosedPnl[k] < 0}, ClosedLoss)
            tm         == TradeMetricsOf(side)
        IN  /\ tm.number_of_trades = n
            /\ wins + losses <= n
            /\ n > 0 => QEq(tm.win_rate, <<wins, n>>) /\ QEq(tm.loss_rate, <<losses, n>>)
            /\ n = 0 => QEq(tm.win_rate, <<0, 1>>) /\ QEq(tm.loss_rate, <<0, 1>>)
            /\ sum_losses = 0 => tm.profit_factor = QInfinity
            /\ sum_losses > 0 =>
                 tm.profit_factor # QInfinity /\ QEq(tm.profit_factor, <<sum_wins, sum_losses>>)

\* Two closed LONGs, one a win and one of zero pnl, and no SHORT: half of all
\* trades are wins, none a loss, every profit factor is +infinity.
C20_Witness ==
    /\ pc = "done" /\ Len(closed) = 2
    /\ TradesOf("shorts") = {}
    /\ \E k \in 1..2 : ClosedPnl[k] = 0
    /\ \E k \in 1..2 : ClosedPnl[k] > 0
    /\ QEq(summary_metrics.overall.trade_metrics.win_rate, <<1, 2>>)
    /\ summary_metrics.shorts.trade_metrics.profit_factor = QInfinity

\* A run with a losing trade and a winning trade: a finite profit factor.
C20_WitnessLoss ==
    /\ pc = "done" /\ Len(closed) = 2
    /\ \E k \in 1..2 : ClosedPnl[k] < 0
    /\ \E k \in 1..2 : ClosedPnl[k] > 0

\* The running peak of total_equity up to bar t, and the drawdown of bar t as
\* the claim defines it.
EquityAt(t) == exposure_series[t].total_equity
PeakAt(t) == CHOOSE e \in {EquityAt(u) : u \in 0..t} : \A u \in 0..t : EquityAt(u) <= e
ClaimedDrawdown(t) ==
    IF PeakAt(t) > 0 THEN <<PeakAt(t) - EquityAt(t), PeakAt(t)>> ELSE <<0, 1>>

\* C21: max_drawdown is the largest over the bars t of dd_t = (P - E_t) / P
\* when the running peak P is > 0 and dd_t = 0 when P <= 0; it is never
\* negative, whatever the sign of the peaks.
C21_MaxDrawdown ==
    pc = "done" =>
      LET md   == summary_metrics.overall.time_metrics.max_drawdown
          bars == 0..(ALen(exposure_series) - 1)
      IN  /\ \E t \in bars : QEq(md, ClaimedDrawdown(t))
          /\ \A t \in bars : ~QLt(md, ClaimedDrawdown(t))
          /\ ~QLt(md, <<0, 1>>)

\* A curve that starts below zero and falls further, so that the quotient
\* (P - E_t) / P of the code is negative on a bar; and the result is 0.
C21_Witness ==
    /\ pc = "done"
    /\ \E t \in 0..(ALen(exposure_series) - 1) : PeakAt(t) < 0 /\ EquityAt(t) < PeakAt(t)
    /\ QEq(summary_metrics.overall.time_metrics.max_drawdown, <<0, 1>>)

\* The positions counted in floating_pnl of bar i: entered by bar i, and open
\* or closed on a later bar.
Floating(i) ==
    {k \in 1..Len(positions) :
        /\ positions[k].entry_index <= i
        /\ (~positions[k].is_closed \/ positions[k].exit_index[1] > i)}

\* The unrealized PnL of each position at the close of bar i.
UnrealizedAt(i) ==
    [k \in 1..Len(positions) |->
       IF positions[k].position_type = "long"
       THEN (input.close[i] - positions[k].entry_price) * positions[k].position_size
       ELSE (positions[k].entry_price - input.close[i]) * positions[k].position_size]

\* C22: on every bar i, floating_pnl is the sum of the unrealized PnL at
\* close[i] over the positions with entry_index <= i that are open or have
\* exit_index > i.  So from its entry bar on a position is counted in exactly
\* one of floating_pnl[i] and realized_equity[i]; on its exit bar it is in
\* realized_equity with its pnl and not in floating_pnl.
C22_FloatingPartition ==
    Simulated =>
      \A i \in 0..(NBars - 1) :
        /\ exposure_series[i].floating_pnl = SumOver(Floating(i), UnrealizedAt(i))
        /\ exposure_series[i].realized_equity = SumOver(ExitedIn(0, i), PnlOf)
        /\ \A k \in 1..Len(positions) :
             /\ positions[k].entry_index <= i =>
                  (k \in Floating(i)) # (k \in ExitedIn(0, i))
             /\ positions[k].is_closed /\ positions[k].exit_index[1] = i =>
                  k \notin Floating(i) /\ k \in ExitedIn(i, i)

\* The only position of a run floats with a non-zero unrealized PnL on a bar
\* and is closed on the next bar with a non-zero pnl: there floating_pnl is 0
\* and realized_equity is its pnl.
C22_Witness ==
    /\ Simulated /\ Len(positions) = 1 /\ positions[1].is_closed
    /\ LET e == positions[1].exit_index[1]
       IN  /\ e > positions[1].entry_index
           /\ exposure_series[e - 1].floating_pnl # 0
           /\ exposure_series[e].floating_pnl = 0
           /\ exposure_series[e].realized_equity = positions[1].pnl[1]
           /\ positions[1].pnl[1] # 0

\* The fields of a position that scan_entries sets and nothing may change.
EntryFields(p) ==
    <<p.position_id, p.position_type, p.entry_index, p.entry_price, p.position_size,
      p.tp, p.sl, p.expiration_time, p.fee_entry, p.slippage_entry>>

\* C23: exit simulation changes only exit and result fields.  Every position
\* keeps its position_id, side, entry_index, entry_price, size, tp, sl,
\* expiration_time, fee_entry and slippage_entry; a position that stays open is
\* as scan_entries created it, fee_exit and slippage_exit still 0; and no step
\* of the run writes the input arrays.
C23_ExitFrame ==
    /\ [](Scanned =>
            /\ Len(positions) = Len(Created)
            /\ \A k \in 1..Len(positions) :
                 /\ EntryFields(positions[k]) = EntryFields(Created[k])
                 /\ ~positions[k].is_closed =>
                      /\ positions[k] = Created[k]
                      /\ positions[k].fee_exit = 0 /\ positions[k].slippage_exit = 0)
    /\ [][input' = input]_vars

\* With a non-zero exit fee rate, one position has been scanned and stays
\* open, another has been closed and has paid its exit fee.
C23_Witness ==
    /\ Simulated /\ input.exit_fee_rate > 0
    /\ \E k \in 1..Len(positions) :
         ~positions[k].is_closed /\ positions[k].position_size > 0
    /\ \E k \in 1..Len(positions) :
         positions[k].is_closed /\ positions[k].fee_exit > 0

\* C24: longs.total_pnl is the sum of pnl over the closed LONG positions and
\* shorts.total_pnl the sum over the closed SHORT positions; their sum is
\* realized_equity of the final snapshot, and overall.total_pnl is that sum
\* plus floating_pnl of the final snapshot; overall, longs and shorts carry the
\* same time-series metrics.
C24_SummaryTotals ==
    pc = "done" =>
      LET final_snap == Last(exposure_series)
          long_pnl   == summary_metrics.longs.total_pnl
          short_pnl  == summary_metrics.shorts.total_pnl
      IN  /\ long_pnl = SumOver(TradesOf("longs"), ClosedPnl)
          /\ short_pnl = SumOver(TradesOf("shorts"), ClosedPnl)
          /\ long_pnl + short_pnl = final_snap.realized_equity
          /\ summary_metrics.overall.total_pnl =
               long_pnl + short_pnl + final_snap.floating_pnl
          /\ summary_metrics.longs.time_metrics = summary_metrics.overall.time_metrics
          /\ summary_metrics.shorts.time_metrics = summary_metrics.overall.time_metrics

\* A closed SHORT with a pnl next to an open position with an unrealized PnL
\* on the last bar: the three totals differ.
C24_Witness ==
    /\ pc = "done"
    /\ summary_metrics.shorts.total_pnl # 0
    /\ summary_metrics.longs.total_pnl = 0
    /\ Last(exposure_series).floating_pnl # 0
    /\ summary_metrics.overall.total_pnl # summary_metrics.shorts.total_pnl
    /\ Len(summary_metrics.overall.time_metrics.returns) > 0

\* C25: position_id identifies a position: no two positions of a run have the
\* same position_id, signals on both of the last two bars included.
C25_PositionIdUnique ==
    Scanned =>
      \A k, l \in 1..Len(positions) :
        k # l => positions[k].position_id # positions[l].position_id

\* Where C25 fails: signals on the last two bars, whose positions both enter
\* on the last bar and both take its timestamp as position_id.
C25_LastTwoBarsShareId ==
    /\ Scanned /\ NBars >= 2 /\ Len(positions) = 2
    /\ HasSignal(NBars - 2) /\ HasSignal(NBars - 1)
    /\ positions[1].position_id = positions[2].position_id
    /\ positions[1].entry_index = NBars - 1 /\ positions[2].entry_index = NBars - 1

\* C26: on an input that passes the validation of run_backtest, scan_entries
\* does not panic, neither for a signal conflict nor for an expiration before
\* the entry time: a run only panics inside validation or in the metrics of an
\* input of no bars.  The entry stage returns one position per signal, also
\* for a signal whose own bar's expiration lies between timestamp[i] and
\* timestamp[i+1].
C26_ScanNeverPanics ==
    /\ Validate(input) = "OK" => ~scan_entries(input).panic
    /\ pc = "panicked" => Validate(input) = "PANIC" \/ NBars = 0
    /\ Scanned => Len(positions) = Cardinality(SignalBarSet)

\* A position has been created for a signal on a bar before the last one whose
\* expiration is at or after its own timestamp and before the next one.
C26_Witness ==
    /\ Scanned
    /\ \E k \in 1..Len(positions) :
         LET i == SignalBarOf(k) IN
         /\ i + 1 < NBars
         /\ input.expiration_times[i] >= input.timestamp[i]
         /\ input.expiration_times[i] < input.timestamp[i + 1]
         /\ positions[k].entry_index = i + 1

====
